---- MODULE Spec2Model ----
(***************************************************************************)
(* State-machine model of src/index.js, the Crowdin API client.            *)
(*                                                                         *)
(* The module state is the two globals apiKey and baseUrl.  Around them    *)
(* the model keeps the objects callers pass in (heap), and for every       *)
(* caller the call it made last: the request handed to the HTTP library,   *)
(* once the HTTP exchange ended, the promise at the head of the handler    *)
(* chain of handleRequest, whose handlers run one per later turn of the    *)
(* event loop, and at the end what the returned promise settled with.      *)
(* JavaScript strings are TLA+ strings, '+' is \o, plain objects are       *)
(* functions from property names to values.  The errors the engine itself  *)
(* throws (SyntaxError of JSON.parse, TypeError of a property read) are    *)
(* worded as the Node.js release in use words them.                        *)
(***************************************************************************)
EXTENDS Naturals, Sequences, FiniteSets, TLC

VARIABLES
    apiKey,     \* index.js:7   var apiKey
    baseUrl,    \* index.js:8   var baseUrl
    heap,       \* the params objects owned by the callers, by reference
    slot,       \* per caller: the call it made last and how far it got
    runtime,    \* the Node.js release the module is loaded in
    lastKeyArg, \* history: argument of the most recent setKey
    lastBaseArg \* history: argument of the most recent setBasePath

vars == <<apiKey, baseUrl, heap, slot, runtime, lastKeyArg, lastBaseArg>>

-----------------------------------------------------------------------------
(* Input domains *)

MaxFiles == 1

Undefined == "undefined"
NeverSet == "never-set"

DefaultBaseUrl == "https://api.crowdin.com"

\* Node.js releases by the wording of their engine's errors: up to 14,
\* 16 and 18, 20 and later
Runtimes == {"node14", "node18", "node20"}

Callers == {"a", "b"}
Keys == {"K1", "K2"}
KeyArgs == Keys \cup {Undefined}
BasePaths == {"http://localhost:8080", "https://mirror.test"}
Projects == {"proj"}
FileNames == {"a.txt"}
Directories == {"docs"}
Languages == {"de"}
Refs == {"o1"}
ParamArgs == Refs \cup {Undefined}

RECURSIVE SeqsUpTo(_, _)
SeqsUpTo(S, n) ==
    IF n = 0 THEN {<<>>}
    ELSE LET shorter == SeqsUpTo(S, n - 1)
         IN  shorter \cup {Append(s, e) : s \in shorter, e \in S}

FileLists == SeqsUpTo(FileNames, MaxFiles)

-----------------------------------------------------------------------------
(* JavaScript values *)

EmptyObj == <<>>

\* a value that may be undefined: the object behind a reference, or none
Def(obj) == [undef |-> FALSE, obj |-> obj]
Undef == [undef |-> TRUE, obj |-> EmptyObj]
Deref(h, p) == IF p = Undefined THEN Undef ELSE Def(h[p])

\* util._extend(origin, add): copies add's properties onto origin
extend(origin, add) ==
    IF add.undef THEN origin ELSE add.obj @@ origin

\* x || {}
OrEmpty(x) == IF x.undef THEN EmptyObj ELSE x.obj

JsVal(type, text, hasError, code, message, hasResponse, body) ==
    [type |-> type, text |-> text, hasError |-> hasError, code |-> code,
     message |-> message, hasResponse |-> hasResponse, body |-> body]

NoVal == JsVal("none", "", FALSE, "", "", FALSE, "")
StringVal(s) == JsVal("string", s, FALSE, "", "", FALSE, "")
ObjectVal(text) == JsVal("object", text, FALSE, "", "", FALSE, "")
EnvelopeVal(code, message) == JsVal("object", "", TRUE, code, message, FALSE, "")
ErrorVal(message) == JsVal("Error", "", FALSE, "", message, FALSE, "")
ArrayVal == JsVal("array", "", FALSE, "", "", FALSE, "")
NullVal == JsVal("null", "", FALSE, "", "", FALSE, "")
\* the TypeError of reading property prop of base (undefined or null)
TypeErrorVal(base, prop) ==
    JsVal("TypeError", "", FALSE, "",
          IF runtime = "node14"
          THEN "Cannot read property '" \o prop \o "' of " \o base
          ELSE "Cannot read properties of " \o base \o " (reading '" \o prop \o "')",
          FALSE, "")
\* request-promise: a response with a non-2xx status; stringified is
\* JSON.stringify(body)
StatusCodeErrorVal(status, body, stringified) ==
    JsVal("StatusCodeError", "", FALSE, status, status \o " - " \o stringified, TRUE, body)
\* request-promise: the request itself failed, there is no response
RequestErrorVal == JsVal("RequestError", "", FALSE, "", "Error: connect ECONNREFUSED", FALSE, "")

-----------------------------------------------------------------------------
(* Response bodies and JSON.parse *)

ErrorCodes == {"3"}
ErrorMessages == {"API key is not valid"}

\* q is the quotation mark as it is written: " in a body, \" in a string
\* JSON.stringify has escaped
EnvelopeWith(q, code, message) ==
    "{" \o q \o "error" \o q \o ":{" \o q \o "code" \o q \o ":" \o code \o ","
        \o q \o "message" \o q \o ":" \o q \o message \o q \o "}}"
PlainWith(q, member) == "{" \o q \o member \o q \o ":true}"

EnvelopeText(code, message) == EnvelopeWith("\"", code, message)
PlainText(member) == PlainWith("\"", member)

PlainContents == {"success"}
EnvelopeTexts == {EnvelopeText(c, m) : c \in ErrorCodes, m \in ErrorMessages}
PlainTexts == {PlainText(x) : x \in PlainContents}
\* JSON texts without a member: the empty object, the empty array, null
LiteralTexts == {"{}", "[]", "null"}
\* texts that are not JSON, each with its first character and its first
\* ten characters
Garbage == {[text |-> "<html>Bad Gateway</html>", token |-> "<", head |-> "<html>Bad "]}
GarbageTexts == {g.text : g \in Garbage}
\* valid JSON without an error envelope
ValidTexts == PlainTexts \cup LiteralTexts
BodyTexts == EnvelopeTexts \cup ValidTexts \cup GarbageTexts \cup {""}

\* the SyntaxError JSON.parse throws on text, a member of GarbageTexts or ''
SyntaxErrorVal(text) ==
    JsVal("SyntaxError", "", FALSE, "",
          IF text = "" THEN "Unexpected end of JSON input"
          ELSE LET g == CHOOSE g \in Garbage : g.text = text
               IN  IF runtime = "node20"
                   THEN "Unexpected token '" \o g.token \o "', \"" \o g.head
                            \o "\"... is not valid JSON"
                   ELSE "Unexpected token " \o g.token \o " in JSON at position 0",
          FALSE, "")

\* JSON.parse(text) for text in BodyTexts: the parsed value, or a
\* SyntaxError thrown
JSONparse(text) ==
    IF text \in EnvelopeTexts
    THEN LET cm == CHOOSE cm \in ErrorCodes \X ErrorMessages :
                       text = EnvelopeText(cm[1], cm[2])
         IN  [threw |-> FALSE, value |-> EnvelopeVal(cm[1], cm[2])]
    ELSE IF text \in PlainTexts
    THEN LET x == CHOOSE x \in PlainContents : text = PlainText(x)
         IN  [threw |-> FALSE, value |-> ObjectVal(x)]
    ELSE IF text = "{}" THEN [threw |-> FALSE, value |-> ObjectVal("")]
    ELSE IF text = "[]" THEN [threw |-> FALSE, value |-> ArrayVal]
    ELSE IF text = "null" THEN [threw |-> FALSE, value |-> NullVal]
    ELSE [threw |-> TRUE, value |-> SyntaxErrorVal(text)]

\* JSON.stringify(text) of a string: quoted, its quotation marks escaped
JSONstringify(text) ==
    IF text \in EnvelopeTexts
    THEN LET cm == CHOOSE cm \in ErrorCodes \X ErrorMessages :
                       text = EnvelopeText(cm[1], cm[2])
         IN  "\"" \o EnvelopeWith("\\\"", cm[1], cm[2]) \o "\""
    ELSE IF text \in PlainTexts
    THEN LET x == CHOOSE x \in PlainContents : text = PlainText(x)
         IN  "\"" \o PlainWith("\\\"", x) \o "\""
    ELSE "\"" \o text \o "\""

\* How the HTTP exchange of one request can end
StatusCodes == {"401"}
HttpOk == [kind : {"ok"}, status : {"200"}, body : BodyTexts]
HttpStatus == [kind : {"status"}, status : StatusCodes, body : BodyTexts]
HttpNetErr == [kind : {"neterr"}, status : {""}, body : {""}]
HttpOutcomes == HttpOk \cup HttpStatus \cup HttpNetErr
NoHttp == [kind |-> "none", status |-> "", body |-> ""]

Fulfilled(v) == [state |-> "fulfilled", value |-> v]
Rejected(v) == [state |-> "rejected", value |-> v]

\* the promise request-promise returns for a request (default options)
requestPromise(http) ==
    IF http.kind = "ok" THEN Fulfilled(StringVal(http.body))
    ELSE IF http.kind = "status"
    THEN Rejected(StatusCodeErrorVal(http.status, http.body, JSONstringify(http.body)))
    ELSE Rejected(RequestErrorVal)

-----------------------------------------------------------------------------
(* index.js:10-38 *)

KeyError == ErrorVal("Please specify CrowdIn API key.")

\* validateKey with the check left out
validateKeyNever == FALSE

\* validateKey(): TRUE when it throws
validateKey == apiKey = Undefined

\* throwError(result): the value thrown
throwError(result) ==
    IF result.type = "null" THEN TypeErrorVal("null", "error")
    ELSE IF result.hasError
    THEN ErrorVal("Error code " \o result.code \o ": " \o result.message)
    ELSE TypeErrorVal("undefined", "code")

\* the first handler leaving the body unparsed
ThenParseSkipped(p) == p

\* .then(function(body) { return JSON.parse(body); })
ThenParse(p) ==
    IF p.state = "fulfilled"
    THEN LET r == JSONparse(p.value.text)
         IN  IF r.threw THEN Rejected(r.value) ELSE Fulfilled(r.value)
    ELSE p

\* .then(function(result) { return result; })
ThenResult(p) == p

\* .catch(function(result) { ... })
CatchHandler(p) ==
    IF p.state = "rejected"
    THEN LET result == p.value
         IN  IF ~result.hasResponse
             THEN Rejected(TypeErrorVal("undefined", "body"))
             ELSE IF result.body # ""
             THEN LET parsed == JSONparse(result.body)
                  IN  IF parsed.threw THEN Rejected(parsed.value)
                      ELSE Rejected(throwError(parsed.value))
             ELSE Rejected(result)
    ELSE p

handleRequest(request) == CatchHandler(ThenResult(ThenParse(request)))

-----------------------------------------------------------------------------
(* index.js:40-77: the three request builders.  Each yields whether it     *)
(* threw, the options handed to the HTTP library, how the promise is       *)
(* post-processed, and the heap it leaves.                                 *)

Request(method, url, qs, formData) ==
    [method |-> method, url |-> url, qs |-> qs, formData |-> formData]
NoRequest == Request("", "", EmptyObj, EmptyObj)

Threw == [threw |-> TRUE, via |-> "", req |-> NoRequest, heap |-> heap]
Issued(via, req, h) == [threw |-> FALSE, via |-> via, req |-> req, heap |-> h]

\* getApiCall reading the initial base URL instead of the variable
getApiCallFixedBase(apiUrl) ==
    IF validateKey THEN Threw
    ELSE LET url == DefaultBaseUrl \o "/api/" \o apiUrl
             params == ("json" :> "true") @@ ("key" :> apiKey)
         IN  Issued("handleRequest", Request("GET", url, params, EmptyObj), heap)

getApiCall(apiUrl) ==
    IF validateKey THEN Threw
    ELSE LET url == baseUrl \o "/api/" \o apiUrl
             params == ("json" :> "true") @@ ("key" :> apiKey)
         IN  Issued("handleRequest", Request("GET", url, params, EmptyObj), heap)

\* getOptions is a caller's object (by reference), a fresh {} or undefined
FreshObj == "{}"
\* h is the heap the call runs on
postApiCall(h, apiUrl, getOptions, postOptions) ==
    IF validateKey THEN Threw
    ELSE LET url == baseUrl \o "/api/" \o apiUrl
             target == IF getOptions \in Refs THEN h[getOptions] ELSE EmptyObj
             params == extend(target, Def(("json" :> "true") @@ ("key" :> apiKey)))
             h2 == IF getOptions \in Refs
                   THEN [h EXCEPT ![getOptions] = params] ELSE h
         IN  Issued("handleRequest",
                    Request("POST", url, params, OrEmpty(postOptions)), h2)

getApiRequest(apiUrl) ==
    IF validateKey THEN Threw
    ELSE LET url == baseUrl \o "/api/" \o apiUrl \o "?key=" \o apiKey \o "&json"
         IN  Issued("raw", Request("GET", url, EmptyObj, EmptyObj), heap)

-----------------------------------------------------------------------------
(* Calls *)

\* phase: idle, thrown (the call threw), inflight (the request is out),
\*        then1, then2, catch (the HTTP exchange ended; the named handler
\*        of handleRequest is the next to run), fulfilled or rejected (the
\*        returned promise settled)
\* req: the options handed to the HTTP library; nreq: requests issued
\* chain: the promise the next handler of handleRequest is attached to
\* alone, snapKey, snapBase: history, for the properties only:
\*   the request the same call hands over when no other call has run, and
\*   the arguments of the latest setKey and setBasePath at the invocation
Call(phase, op, via, path, args, req, alone, snapKey, snapBase, nreq, http, chain, result) ==
    [phase |-> phase, op |-> op, via |-> via, path |-> path, args |-> args,
     req |-> req, alone |-> alone, snapKey |-> snapKey, snapBase |-> snapBase,
     nreq |-> nreq, http |-> http, chain |-> chain, result |-> result]

NoPromise == [state |-> "pending", value |-> NoVal]

Idle ==
    Call("idle", "", "", "", <<>>, NoRequest, NoRequest, "", "", 0, NoHttp, NoPromise,
         NoVal)

\* the phases in which the returned promise is pending
PendingPhases == {"inflight", "then1", "then2", "catch"}

\* the callers' objects as the callers made them
InitialParams == "title" :> "Docs"
OwnObjects == [r \in Refs |-> InitialParams]

\* caller c invokes operation op; built is what its request builder yields,
\* alone what it yields on the callers' own objects
Invoke(c, op, path, args, built, alone) ==
    /\ slot[c].phase \notin PendingPhases
    /\ slot' = [slot EXCEPT ![c] =
            IF built.threw
            THEN Call("thrown", op, "", path, args, NoRequest, NoRequest, "", "", 0,
                      NoHttp, NoPromise, KeyError)
            ELSE Call("inflight", op, built.via, path, args, built.req, alone.req,
                      lastKeyArg, lastBaseArg, 1, NoHttp, NoPromise, NoVal)]
    /\ heap' = built.heap
    /\ UNCHANGED <<apiKey, baseUrl, runtime, lastKeyArg, lastBaseArg>>

\* c's call after the HTTP exchange ended with http: the library's promise
\* p is the returned promise (getApiRequest), or the promise the first
\* handler of handleRequest is attached to
Ended(call, http, p) ==
    IF call.via = "handleRequest"
    THEN Call("then1", call.op, call.via, "", <<>>, NoRequest, NoRequest, "", "",
              call.nreq, http, p, NoVal)
    ELSE Call(p.state, call.op, call.via, "", <<>>, NoRequest, NoRequest, "", "",
              call.nreq, http, NoPromise, p.value)

\* Respond with a failed exchange tried once more
RespondRetrying(c, http) ==
    /\ slot[c].phase = "inflight"
    /\ slot' = [slot EXCEPT ![c] =
            IF http.kind # "ok" /\ @.nreq < 2
            THEN [@ EXCEPT !.nreq = @ + 1]
            ELSE Ended(@, http, requestPromise(http))]
    /\ UNCHANGED <<apiKey, baseUrl, heap, runtime, lastKeyArg, lastBaseArg>>

\* the HTTP exchange of c's request ends with http: the library's promise
\* settles
Respond(c, http) ==
    /\ slot[c].phase = "inflight"
    /\ slot' = [slot EXCEPT ![c] = Ended(@, http, requestPromise(http))]
    /\ UNCHANGED <<apiKey, baseUrl, heap, runtime, lastKeyArg, lastBaseArg>>

\* index.js:21-23: in a later turn the first handler runs
ThenParseRuns(c) ==
    /\ slot[c].phase = "then1"
    /\ slot' = [slot EXCEPT ![c].phase = "then2", ![c].chain = ThenParse(@)]
    /\ UNCHANGED <<apiKey, baseUrl, heap, runtime, lastKeyArg, lastBaseArg>>

\* index.js:24-29: in a later turn the second handler runs
ThenResultRuns(c) ==
    /\ slot[c].phase = "then2"
    /\ slot' = [slot EXCEPT ![c].phase = "catch", ![c].chain = ThenResult(@)]
    /\ UNCHANGED <<apiKey, baseUrl, heap, runtime, lastKeyArg, lastBaseArg>>

\* index.js:30-37: in a later turn the catch handler runs, and the promise
\* handleRequest returned settles
CatchHandlerRuns(c) ==
    /\ slot[c].phase = "catch"
    /\ LET q == CatchHandler(slot[c].chain)
       IN  slot' = [slot EXCEPT ![c].phase = q.state, ![c].chain = NoPromise,
                                ![c].result = q.value]
    /\ UNCHANGED <<apiKey, baseUrl, heap, runtime, lastKeyArg, lastBaseArg>>

-----------------------------------------------------------------------------
(* index.js:79-278: the exported operations *)

setBasePath(newBasePath) ==
    /\ baseUrl' = newBasePath
    /\ lastBaseArg' = newBasePath
    /\ UNCHANGED <<apiKey, heap, slot, runtime, lastKeyArg>>

setKey(newKey) ==
    /\ apiKey' = newKey
    /\ lastKeyArg' = newKey
    /\ UNCHANGED <<baseUrl, heap, slot, runtime, lastBaseArg>>

createReadStream(fileName) == "ReadStream(" \o fileName \o ")"

\* files.forEach(function(fileName) { filesInformation[index] = ... })
RECURSIVE forEachFile(_, _)
forEachFile(files, filesInformation) ==
    IF files = <<>> THEN filesInformation
    ELSE LET fileName == Head(files)
             index == "files[" \o fileName \o "]"
         IN  forEachFile(Tail(files),
                         (index :> createReadStream(fileName)) @@ filesInformation)

addFile(c, projectName, files, params) ==
    LET filesInformation == forEachFile(files, EmptyObj)
        path == "project/" \o projectName \o "/add-file"
        build(h) ==
            postApiCall(h, path, FreshObj, Def(extend(filesInformation, Deref(h, params))))
    IN  /\ Invoke(c, "addFile", path, <<projectName, params>>,
                  build(heap), build(OwnObjects))

updateFile(c, projectName, files, params) ==
    LET filesInformation == forEachFile(files, EmptyObj)
        path == "project/" \o projectName \o "/update-file"
        build(h) ==
            postApiCall(h, path, FreshObj, Def(extend(filesInformation, Deref(h, params))))
    IN  /\ Invoke(c, "updateFile", path, <<projectName, params>>,
                  build(heap), build(OwnObjects))

deleteFile(c, projectName, fileName) ==
    LET path == "project/" \o projectName \o "/delete-file"
        build(h) ==
            postApiCall(h, path, FreshObj, Def("file" :> fileName))
    IN  /\ Invoke(c, "deleteFile", path, <<projectName, fileName>>,
                  build(heap), build(OwnObjects))

updateTranslations(c, projectName, files, language, params) ==
    LET filesInformation == forEachFile(files, "language" :> language)
        path == "project/" \o projectName \o "/upload-translation"
        build(h) ==
            postApiCall(h, path, FreshObj, Def(extend(filesInformation, Deref(h, params))))
    IN  /\ Invoke(c, "updateTranslations", path, <<projectName, language, params>>,
                  build(heap), build(OwnObjects))

translationStatus(c, projectName) ==
    LET path == "project/" \o projectName \o "/status"
        build(h) ==
            postApiCall(h, path, Undefined, Undef)
    IN  /\ Invoke(c, "translationStatus", path, <<projectName>>,
                  build(heap), build(OwnObjects))

projectInfo(c, projectName) ==
    LET path == "project/" \o projectName \o "/info"
        build(h) ==
            postApiCall(h, path, Undefined, Undef)
    IN  /\ Invoke(c, "projectInfo", path, <<projectName>>,
                  build(heap), build(OwnObjects))

downloadTranslations(c, projectName, languageCode) ==
    LET path == "project/" \o projectName \o "/download/" \o languageCode \o ".zip"
        build(h) ==
            getApiRequest(path)
    IN  /\ Invoke(c, "downloadTranslations", path, <<projectName, languageCode>>,
                  build(heap), build(OwnObjects))

downloadAllTranslations(c, projectName) ==
    LET path == "project/" \o projectName \o "/download/all.zip"
        build(h) ==
            getApiRequest(path)
    IN  /\ Invoke(c, "downloadAllTranslations", path, <<projectName>>,
                  build(heap), build(OwnObjects))

exportTranslations(c, projectName) ==
    LET path == "project/" \o projectName \o "/export"
        build(h) ==
            getApiCall(path)
    IN  /\ Invoke(c, "exportTranslations", path, <<projectName>>,
                  build(heap), build(OwnObjects))

editProject(c, projectName, params) ==
    LET path == "project/" \o projectName \o "/edit-project"
        build(h) ==
            postApiCall(h, path, FreshObj, Deref(h, params))
    IN  /\ Invoke(c, "editProject", path, <<projectName, params>>,
                  build(heap), build(OwnObjects))

deleteProject(c, projectName) ==
    LET path == "project/" \o projectName \o "/delete-project"
        build(h) ==
            postApiCall(h, path, Undefined, Undef)
    IN  /\ Invoke(c, "deleteProject", path, <<projectName>>,
                  build(heap), build(OwnObjects))

createDirectory(c, projectName, directory, params) ==
    LET path == "project/" \o projectName \o "/add-directory"
        build(h) ==
            postApiCall(h, path, params, Def("name" :> directory))
    IN  /\ Invoke(c, "createDirectory", path, <<projectName, directory, params>>,
                  build(heap), build(OwnObjects))

\* the fourth argument of the postApiCall call, params, has no parameter
changeDirectory(c, projectName, directory, params) ==
    LET path == "project/" \o projectName \o "/change-directory"
        build(h) ==
            postApiCall(h, path, FreshObj, Def("name" :> directory))
    IN  /\ Invoke(c, "changeDirectory", path, <<projectName, directory, params>>,
                  build(heap), build(OwnObjects))

deleteDirectory(c, projectName, directory) ==
    LET path == "project/" \o projectName \o "/delete-directory"
        build(h) ==
            postApiCall(h, path, FreshObj, Def("name" :> directory))
    IN  /\ Invoke(c, "deleteDirectory", path, <<projectName, directory>>,
                  build(heap), build(OwnObjects))

downloadGlossary(c, projectName) ==
    LET path == "project/" \o projectName \o "/download-glossary"
        build(h) ==
            getApiRequest(path)
    IN  /\ Invoke(c, "downloadGlossary", path, <<projectName>>,
                  build(heap), build(OwnObjects))

\* isString: typeof fileNameOrStream === 'string'
uploadGlossary(c, projectName, fileNameOrStream, isString) ==
    LET stream == IF isString THEN createReadStream(fileNameOrStream)
                  ELSE fileNameOrStream
        path == "project/" \o projectName \o "/upload-glossary"
        build(h) ==
            postApiCall(h, path, FreshObj, Def("file" :> stream))
    IN  /\ Invoke(c, "uploadGlossary", path, <<projectName, fileNameOrStream>>,
                  build(heap), build(OwnObjects))

downloadTranslationMemory(c, projectName) ==
    LET path == "project/" \o projectName \o "/download-tm"
        build(h) ==
            postApiCall(h, path, Undefined, Undef)
    IN  /\ Invoke(c, "downloadTranslationMemory", path, <<projectName>>,
                  build(heap), build(OwnObjects))

uploadTranslationMemory(c, projectName, fileNameOrStream, isString) ==
    LET stream == IF isString THEN createReadStream(fileNameOrStream)
                  ELSE fileNameOrStream
        path == "project/" \o projectName \o "/upload-tm"
        build(h) ==
            postApiCall(h, path, FreshObj, Def("file" :> stream))
    IN  /\ Invoke(c, "uploadTranslationMemory", path, <<projectName, fileNameOrStream>>,
                  build(heap), build(OwnObjects))

supportedLanguages(c) ==
    LET path == "supported-languages"
        build(h) ==
            getApiCall(path)
    IN  /\ Invoke(c, "supportedLanguages", path, <<>>,
                  build(heap), build(OwnObjects))

-----------------------------------------------------------------------------
(* Specification *)

Init ==
    /\ apiKey = Undefined
    /\ baseUrl = DefaultBaseUrl
    /\ heap = OwnObjects
    /\ slot = [c \in Callers |-> Idle]
    /\ runtime \in Runtimes
    /\ lastKeyArg = NeverSet
    /\ lastBaseArg = NeverSet

StreamArgs == {createReadStream(f) : f \in FileNames}

\* C: the callers of every operation; D: those of the one operation per
\* request builder (exportTranslations, createDirectory, downloadGlossary);
\* H: how an HTTP exchange can end; O, K, B: the params, key and base
\* path arguments
Step(C, D, H, O, K, B) ==
    \/ \E b \in B : setBasePath(b)
    \/ \E k \in K : setKey(k)
    \/ \E c \in D, h \in H : Respond(c, h)
    \/ \E c \in D : ThenParseRuns(c)
    \/ \E c \in D : ThenResultRuns(c)
    \/ \E c \in D : CatchHandlerRuns(c)
    \/ \E c \in C, p \in Projects, fs \in FileLists, o \in O :
           addFile(c, p, fs, o)
    \/ \E c \in C, p \in Projects, fs \in FileLists, o \in O :
           updateFile(c, p, fs, o)
    \/ \E c \in C, p \in Projects, f \in FileNames : deleteFile(c, p, f)
    \/ \E c \in C, p \in Projects, fs \in FileLists, l \in Languages,
          o \in O : updateTranslations(c, p, fs, l, o)
    \/ \E c \in C, p \in Projects : translationStatus(c, p)
    \/ \E c \in C, p \in Projects : projectInfo(c, p)
    \/ \E c \in C, p \in Projects, l \in Languages :
           downloadTranslations(c, p, l)
    \/ \E c \in C, p \in Projects : downloadAllTranslations(c, p)
    \/ \E c \in D, p \in Projects : exportTranslations(c, p)
    \/ \E c \in C, p \in Projects, o \in O : editProject(c, p, o)
    \/ \E c \in C, p \in Projects : deleteProject(c, p)
    \/ \E c \in D, p \in Projects, d \in Directories, o \in O :
           createDirectory(c, p, d, o)
    \/ \E c \in C, p \in Projects, d \in Directories, o \in O :
           changeDirectory(c, p, d, o)
    \/ \E c \in C, p \in Projects, d \in Directories : deleteDirectory(c, p, d)
    \/ \E c \in D, p \in Projects : downloadGlossary(c, p)
    \/ \E c \in C, p \in Projects, f \in FileNames :
           uploadGlossary(c, p, f, TRUE)
    \/ \E c \in C, p \in Projects, s \in StreamArgs :
           uploadGlossary(c, p, s, FALSE)
    \/ \E c \in C, p \in Projects : downloadTranslationMemory(c, p)
    \/ \E c \in C, p \in Projects, f \in FileNames :
           uploadTranslationMemory(c, p, f, TRUE)
    \/ \E c \in C, p \in Projects, s \in StreamArgs :
           uploadTranslationMemory(c, p, s, FALSE)
    \/ \E c \in C : supportedLanguages(c)

\* one caller, every outcome of the HTTP exchange, every argument
Next == Step({"a"}, {"a"}, HttpOutcomes, ParamArgs, KeyArgs, BasePaths)

Spec == Init /\ [][Next]_vars

\* two callers with requests in flight at the same time: caller a invokes
\* any operation, caller b one operation per request builder
ConcHttp == {h \in HttpOutcomes :
                \/ h.kind = "ok" /\ h.body \in PlainTexts
                \/ h.kind = "status" /\ h.body \in EnvelopeTexts}
ConcBasePaths == {"http://localhost:8080"}

NextConc == Step({"a"}, Callers, ConcHttp, ParamArgs, Keys, ConcBasePaths)

SpecConc == Init /\ [][NextConc]_vars

-----------------------------------------------------------------------------
(* Properties *)

InFlight(c) == slot[c].phase = "inflight"
Pending(c) == slot[c].phase \in PendingPhases
Settled(c) == slot[c].phase \in {"fulfilled", "rejected"}

\* the operations that hand back the HTTP library's promise as it is
RawOperations == {"downloadTranslations", "downloadAllTranslations", "downloadGlossary"}

EnvelopeMessage(code, message) == "Error code " \o code \o ": " \o message

\* the error v carries the code and message of the envelope in body
CarriesEnvelope(v, body) ==
    \E code \in ErrorCodes, message \in ErrorMessages :
        /\ body = EnvelopeText(code, message)
        /\ \/ v.type = "Error" /\ v.message = EnvelopeMessage(code, message)
           \/ v.type = "StatusCodeError" /\ v.body = body

\* C1: whenever the HTTP call of an operation completed with a response
\* body that holds an error envelope, the operation failed with an error
\* carrying the envelope's code and message; the body was not delivered as
\* a successful result.
C1_EnvelopeAlwaysFails ==
    \A c \in Callers :
        (Settled(c) /\ slot[c].http.kind \in {"ok", "status"}
                    /\ slot[c].http.body \in EnvelopeTexts)
        => /\ slot[c].phase = "rejected"
           /\ CarriesEnvelope(slot[c].result, slot[c].http.body)

\* C2: whenever the HTTP layer failed with a response body holding an error
\* envelope with code c and message m, the promise of the operation was
\* rejected with an Error whose message is 'Error code ' + c + ': ' + m.
C2_FailureEnvelopeMessage ==
    \A c \in Callers :
        (Settled(c) /\ slot[c].http.kind = "status"
                    /\ slot[c].http.body \in EnvelopeTexts)
        => /\ slot[c].phase = "rejected"
           /\ slot[c].result.type = "Error"
           /\ \E code \in ErrorCodes, message \in ErrorMessages :
                  /\ slot[c].http.body = EnvelopeText(code, message)
                  /\ slot[c].result.message = EnvelopeMessage(code, message)

\* the HTTP call succeeded with a body that is JSON without an envelope
PlainSuccess(c) ==
    /\ Settled(c)
    /\ slot[c].http.kind = "ok"
    /\ slot[c].http.body \in ValidTexts

\* C3 as stated: after a successful HTTP call whose body is valid JSON
\* without an error envelope, the promise of every operation alike is
\* fulfilled with the parsed body.
C3_AllOperationsParse ==
    \A c \in Callers :
        PlainSuccess(c)
        => /\ slot[c].phase = "fulfilled"
           /\ slot[c].result = JSONparse(slot[c].http.body).value

\* C3 amended: after a successful HTTP call whose body is valid JSON without
\* an error envelope, the promise is fulfilled with the parsed body for
\* every operation except downloadTranslations, downloadAllTranslations and
\* downloadGlossary, whose promise is fulfilled with the raw body text.
C3_ParsedExceptRawDownloads ==
    \A c \in Callers :
        PlainSuccess(c)
        => /\ slot[c].phase = "fulfilled"
           /\ slot[c].op \notin RawOperations
                  => /\ slot[c].result = JSONparse(slot[c].http.body).value
                     /\ slot[c].result.type \in {"object", "array", "null"}
           /\ slot[c].op \in RawOperations
                  => slot[c].result = StringVal(slot[c].http.body)

C3_Witness ==
    \E c \in Callers :
        /\ PlainSuccess(c)
        /\ slot[c].op = "downloadTranslationMemory"
        /\ slot[c].result.type = "object"

\* the failure value of a request that failed without a response body
OriginalFailure(op, http) ==
    IF http.kind = "neterr" THEN RequestErrorVal
    ELSE IF http.kind = "status"
    THEN StatusCodeErrorVal(http.status, http.body, JSONstringify(http.body))
    ELSE SyntaxErrorVal(http.body)

FailedWithoutBody(c) ==
    /\ Settled(c)
    /\ \/ slot[c].http.kind = "neterr"
       \/ slot[c].http.kind = "status" /\ slot[c].http.body = ""
       \/ /\ slot[c].http.kind = "ok"
          /\ slot[c].op \notin RawOperations
          /\ JSONparse(slot[c].http.body).threw

\* C9: whenever the request failed and the failure carries no response body
\* (no response at all, or a success body that is not valid JSON), the
\* promise was rejected with the original failure value itself.
C9_FailurePassedThrough ==
    \A c \in Callers :
        FailedWithoutBody(c)
        => /\ slot[c].phase = "rejected"
           /\ slot[c].result = OriginalFailure(slot[c].op, slot[c].http)

-----------------------------------------------------------------------------
(* Key, requests and configuration *)

\* in the step, caller c invokes an operation
Invokes(c) == ~Pending(c) /\ slot'[c] # slot[c]
\* in the step, caller c's call moves on: its HTTP exchange ends or one of
\* its handlers runs
Advances(c) == Pending(c) /\ slot'[c] # slot[c]
\* the phases a call can be in after the phase it is in
LaterPhases(phase) ==
    IF phase = "inflight" THEN {"then1", "fulfilled", "rejected"}
    ELSE IF phase = "then1" THEN {"then2"}
    ELSE IF phase = "then2" THEN {"catch"}
    ELSE {"fulfilled", "rejected"}

\* setKey was never called, or was last called with undefined
KeyUnset == lastKeyArg \in {NeverSet, Undefined}

\* the request options req go to the URL base + '/api/' + path with the
\* query parameter key = key, given as qs or written into the URL
Carries(req, base, path, key) ==
    \/ /\ req.url = base \o "/api/" \o path
       /\ "key" \in DOMAIN req.qs
       /\ req.qs["key"] = key
    \/ /\ req.url = base \o "/api/" \o path \o "?key=" \o key \o "&json"
       /\ req.qs = EmptyObj

\* C4: while the key is unset, every invocation of an operation other than
\* setKey and setBasePath fails with 'Please specify CrowdIn API key.' and
\* issues no HTTP request; no request is ever issued without a key.
C4_KeyRequired ==
    /\ [][\A c \in Callers :
              Invokes(c)
              => /\ KeyUnset => /\ slot'[c].phase = "thrown"
                                /\ slot'[c].result = KeyError
                                /\ slot'[c].nreq = 0
                                /\ slot'[c].req = NoRequest
                 /\ slot'[c].nreq > 0 => ~KeyUnset]_vars
    /\ [](\A c \in Callers :
              InFlight(c) => /\ slot[c].snapKey \in Keys
                             /\ \E k \in Keys, b \in BasePaths \cup {DefaultBaseUrl} :
                                    Carries(slot[c].req, b, slot[c].path, k))

C4_Witness ==
    \E c \in Callers :
        /\ slot[c].phase = "thrown"
        /\ slot[c].op = "downloadGlossary"
        /\ lastKeyArg = Undefined

\* C5: one invocation issues exactly one HTTP request when the key is set
\* and none otherwise; however the HTTP exchange ends, the call only moves
\* on towards its promise settling and no further request is issued.
C5_NoRetries ==
    [][\A c \in Callers :
           /\ Invokes(c) => /\ slot'[c].nreq = IF KeyUnset THEN 0 ELSE 1
                            /\ ~KeyUnset => slot'[c].phase = "inflight"
           /\ Advances(c) => /\ slot'[c].phase \in LaterPhases(slot[c].phase)
                             /\ slot'[c].nreq = 1]_vars

C5_Witness ==
    \E c \in Callers :
        /\ slot[c].phase = "rejected"
        /\ slot[c].http.kind = "neterr"
        /\ slot[c].nreq = 1

\* the base URL the history prescribes
PrescribedBase == IF lastBaseArg = NeverSet THEN "https://api.crowdin.com" ELSE lastBaseArg

\* C6: every request issued carries the argument of the most recent setKey
\* as its key and goes to (argument of the most recent setBasePath, or
\* 'https://api.crowdin.com') + '/api/' + endpoint path; setKey leaves the
\* base URL unchanged, setBasePath leaves the key unchanged, and no API
\* operation changes either.
C6_SetOnceUseMany ==
    [][/\ \A c \in Callers :
              (Invokes(c) /\ slot'[c].phase = "inflight")
              => Carries(slot'[c].req, PrescribedBase, slot'[c].path, lastKeyArg)
       /\ lastKeyArg' # lastKeyArg => baseUrl' = baseUrl /\ apiKey' = lastKeyArg'
       /\ lastBaseArg' # lastBaseArg => apiKey' = apiKey /\ baseUrl' = lastBaseArg'
       /\ slot' # slot => apiKey' = apiKey /\ baseUrl' = baseUrl]_vars

C6_Witness ==
    \E c \in Callers :
        /\ InFlight(c)
        /\ slot[c].op = "supportedLanguages"
        /\ slot[c].snapKey = "K2"
        /\ slot[c].snapBase = "https://mirror.test"
        /\ Carries(slot[c].req, "https://mirror.test", "supported-languages", "K2")

\* C7: the request changeDirectory(projectName, directory, params) issues
\* holds every key/value pair of the caller's params, together with the
\* field name = directory.
C7_ChangeDirectorySendsParams ==
    \A c \in Callers :
        (InFlight(c) /\ slot[c].op = "changeDirectory" /\ slot[c].args[3] \in Refs)
        => LET params == heap[slot[c].args[3]]
               req == slot[c].req
           IN  /\ slot[c].path = "project/" \o slot[c].args[1] \o "/change-directory"
               /\ "name" \in DOMAIN req.formData
               /\ req.formData["name"] = slot[c].args[2]
               /\ \A f \in DOMAIN params :
                      \/ f \in DOMAIN req.formData /\ req.formData[f] = params[f]
                      \/ f \in DOMAIN req.qs /\ req.qs[f] = params[f]

\* caller c's request is in flight together with another one, or setKey or
\* setBasePath ran after c's invocation
Interleaved(c) ==
    /\ InFlight(c)
    /\ \/ \E d \in Callers \ {c} : InFlight(d)
       \/ lastKeyArg # slot[c].snapKey
       \/ lastBaseArg # slot[c].snapBase

\* C8: every request in flight together with another one, or with a setKey
\* or setBasePath run since its invocation, is the request the same call
\* sends when it runs alone; its response and its handlers move its own
\* call on and leave every other call as it is; whatever ran while its
\* result was pending, the result is the one its response determines.
C8_IndependentCalls ==
    /\ [](\A c \in Callers : Interleaved(c) => slot[c].req = slot[c].alone)
    /\ [][\A c \in Callers :
              Pending(c)
              => \/ slot'[c] = slot[c]
                 \/ /\ slot'[c].phase \in LaterPhases(slot[c].phase)
                    /\ slot'[c].op = slot[c].op
                    /\ \A d \in Callers \ {c} : slot'[d] = slot[d]]_vars
    /\ [](\A c \in Callers :
              (Settled(c) /\ slot[c].via = "handleRequest")
              => LET q == handleRequest(requestPromise(slot[c].http))
                 IN  slot[c].phase = q.state /\ slot[c].result = q.value)

\* C10: no operation modifies the objects its caller passes in.
C10_ArgumentsUntouched == [][\A r \in Refs : heap'[r] = heap[r]]_vars

====
